---- MODULE Spec2Model ----
(***************************************************************************)
(* Vision Proxy: a reverse proxy that replaces the images of an OpenAI     *)
(* style chat request by OCR descriptions before forwarding it upstream.   *)
(*                                                                         *)
(* Strings are modelled as sequences of tokens (<<>> is the empty string), *)
(* so that concatenation, prefixes and suffixes are computed, not assumed. *)
(* A message content is a tagged value, because the code branches on its   *)
(* Python type: absent key, null, str or list.                             *)
(***************************************************************************)
EXTENDS Integers, Sequences, FiniteSets, TLC

\* ------------------------------------------------------------------ bounds
\* Longest message list given to rebuild_messages.
MaxMsgs == 2
\* Longest list-typed content of a message given to rebuild_messages.
MaxItems == 2
\* Most content items (hence images) of the message of an inbound chat request.
MaxImages == 3
\* Most chunks an upstream sends in one streamed response.
MaxChunks == 2

\* ------------------------------------------------------------- data model
EmptyStr == <<>>

Str(s) == [kind |-> "str", text |-> s, items |-> <<>>]
List(items) == [kind |-> "list", text |-> EmptyStr, items |-> items]
\* content: null
Null == [kind |-> "null", text |-> EmptyStr, items |-> <<>>]
\* the message has no "content" key
Absent == [kind |-> "absent", text |-> EmptyStr, items |-> <<>>]

TextItem(s) == [type |-> "text", text |-> s, image_url |-> "none"]
ImageItem(u) == [type |-> "image_url", text |-> EmptyStr, image_url |-> u]
\* a content item with a tag the pipeline does not know
OtherItem == [type |-> "input_audio", text |-> EmptyStr, image_url |-> "none"]

Roles == {"user", "system"}
Items == {TextItem(<<"a">>), ImageItem("data:img"), OtherItem}

SeqsUpTo(S, n) == UNION {[1..k -> S] : k \in 0..n}

Contents(n) == {Absent, Null, Str(EmptyStr), Str(<<"hi">>)} \cup {List(x) : x \in SeqsUpTo(Items, n)}
Messages(n) == {[role |-> r, content |-> c] : r \in Roles, c \in Contents(n)}
MessageLists == SeqsUpTo(Messages(MaxItems), MaxMsgs)
OcrTexts == {EmptyStr, <<"T">>}

\* ------------------------------------------------------------- ocr.py
ImageRef_Swapped(m, c, item) == [msg_idx |-> c, content_idx |-> m, item |-> item]

\* ImageRef: (message_index, content_index, item), 0-based as in the code.
ImageRef(m, c, item) == [msg_idx |-> m, content_idx |-> c, item |-> item]

RECURSIVE ScanItems(_, _, _)
\* the inner loop of extract_images over content[k-1 ..], k the 1-based position
ScanItems(msg_idx, items, k) ==
    IF k > Len(items) THEN <<>>
    ELSE (IF items[k].type = "image_url"
             THEN <<ImageRef(msg_idx, k - 1, items[k])>>
             ELSE <<>>)
         \o ScanItems(msg_idx, items, k + 1)

RECURSIVE ScanMessages(_, _)
\* the outer loop of extract_images over messages[i-1 ..]
ScanMessages(messages, i) ==
    IF i > Len(messages) THEN <<>>
    ELSE (IF messages[i].content.kind = "list"
             THEN ScanItems(i - 1, messages[i].content.items, 1)
             ELSE <<>>)
         \o ScanMessages(messages, i + 1)

extract_images(messages) == ScanMessages(messages, 1)

\* ------------------------------------------------------- message_utils.py
has_images(messages) ==
    \E i \in DOMAIN messages :
        /\ messages[i].content.kind = "list"
        /\ \E k \in DOMAIN messages[i].content.items :
               messages[i].content.items[k].type = "image_url"

images_to_remove_shifted(images) ==
    {<<images[j].msg_idx, images[j].content_idx + 1>> : j \in DOMAIN images}

\* the set of (msg_idx, content_idx) to remove
images_to_remove(images) ==
    {<<images[j].msg_idx, images[j].content_idx>> : j \in DOMAIN images}

RECURSIVE FilterItems(_, _, _, _)
\* new_content: the items whose coordinate is not in the removal set
FilterItems(msg_idx, items, remove, k) ==
    IF k > Len(items) THEN <<>>
    ELSE (IF <<msg_idx, k - 1>> \notin remove THEN <<items[k]>> ELSE <<>>)
         \o FilterItems(msg_idx, items, remove, k + 1)

SimplifyContent_AnySingle(new_content) ==
    IF Len(new_content) = 0 THEN Str(EmptyStr)
    ELSE IF Len(new_content) = 1 THEN Str(new_content[1].text)
    ELSE List(new_content)

SimplifyContent_KeepEmptyList(new_content) ==
    IF Len(new_content) = 1 /\ new_content[1].type = "text"
         THEN Str(new_content[1].text)
    ELSE List(new_content)

\* "If only text items remain, simplify the content"
SimplifyContent(new_content) ==
    IF Len(new_content) = 0 THEN Str(EmptyStr)
    ELSE IF Len(new_content) = 1 /\ new_content[1].type = "text"
         THEN Str(new_content[1].text)
    ELSE List(new_content)

\* one iteration of the "Process each message" loop
StripMessage(msg_idx, message, remove) ==
    IF message.content.kind = "list"
    THEN [message EXCEPT !.content =
              SimplifyContent(FilterItems(msg_idx, message.content.items, remove, 1))]
    ELSE message

StripMessages(messages, images) ==
    [i \in DOMAIN messages |-> StripMessage(i - 1, messages[i], images_to_remove(images))]

RECURSIVE ScanBack(_, _)
\* the backwards scan for the last user message from 1-based position i;
\* the result is the 0-based index, -1 when there is none
ScanBack(new_messages, i) ==
    IF i < 1 THEN -1
    ELSE IF new_messages[i].role = "user" THEN i - 1
    ELSE ScanBack(new_messages, i - 1)

last_user_idx(new_messages) == ScanBack(new_messages, Len(new_messages))

Separator == <<"\n", "\n">>

NewUserMessage_Front(new_messages, ocr_text) ==
    <<[role |-> "user", content |-> Str(ocr_text)]>> \o new_messages

\* "No user message found, append as new user message"
NewUserMessage(new_messages, ocr_text) ==
    Append(new_messages, [role |-> "user", content |-> Str(ocr_text)])

\* the branch that appends the OCR text to message last_user_idx
AppendToUser(message, ocr_text) ==
    LET current_content ==
            IF message.content.kind = "absent" THEN Str(EmptyStr) ELSE message.content
    IN  IF current_content.kind = "str"
        THEN [message EXCEPT !.content =
                 IF current_content.text # EmptyStr
                 THEN Str(current_content.text \o Separator \o ocr_text)
                 ELSE Str(ocr_text)]
        ELSE IF current_content.kind = "list"
        THEN [message EXCEPT !.content =
                 List(Append(current_content.items, TextItem(Separator \o ocr_text)))]
        ELSE message

AppendOcrText(new_messages, ocr_text) ==
    IF ocr_text = EmptyStr THEN new_messages
    ELSE LET idx == last_user_idx(new_messages)
         IN  IF idx >= 0
             THEN [new_messages EXCEPT ![idx + 1] = AppendToUser(new_messages[idx + 1], ocr_text)]
             ELSE NewUserMessage(new_messages, ocr_text)

rebuild_messages(messages, images, ocr_text) ==
    AppendOcrText(StripMessages(messages, images), ocr_text)

\* "图片{image_num}内容：({ocr_text})" lines joined by "\n"; the two fixed
\* pieces of the template are the tokens "tupian" and "neirong:("
Digits == <<"0", "1", "2", "3", "4", "5", "6", "7", "8", "9">>

RECURSIVE DecStr(_)
\* the decimal digits of n, as f"{image_num}" writes them
DecStr(n) ==
    IF n < 10 THEN <<Digits[n + 1]>>
    ELSE DecStr(n \div 10) \o <<Digits[(n % 10) + 1]>>

OcrLine(r) == <<"tupian">> \o DecStr(r.image_num) \o <<"neirong:(">> \o r.ocr_text \o <<")">>

RECURSIVE JoinLines(_, _)
JoinLines(ocr_results, k) ==
    IF k > Len(ocr_results) THEN <<>>
    ELSE (IF k > 1 THEN <<"\n">> ELSE <<>>) \o OcrLine(ocr_results[k])
         \o JoinLines(ocr_results, k + 1)

format_ocr_results(ocr_results) ==
    IF ocr_results = <<>> THEN EmptyStr ELSE JoinLines(ocr_results, 1)

\* ------------------------------------------------------------------ main.py
\* URLs and paths are sequences of tokens; the path of a request is what
\* follows the leading slash (the path parameter of the catch-all route).
ChatUrl == <<"http://", "up", "/", "v1", "/", "chat", "/", "completions">>
\* paths that hold a chat-completions URL, the last one behind a second slash
ChatPaths == {ChatUrl, ChatUrl \o <<"/">>, <<"/">> \o ChatUrl}
Paths ==
    ChatPaths \cup
    { <<"health">>,
      <<"https://", "up", "/", "v1", "/", "models">>,
      <<"ftp://", "up", "/", "v1", "/", "chat", "/", "completions">> }
Methods == {"GET", "POST"}
\* request.query_params as the query string: empty, or one pair
Queries == {EmptyStr, <<"k=v">>}
\* request.headers as a set of (name, value) pairs, names in lower case
BaseHeaders == {<<"host", "proxy">>, <<"content-length", "9">>}
HeaderSets == {BaseHeaders, BaseHeaders \cup {<<"authorization", "Bearer t">>}}
\* the fields of a payload other than messages and stream
Extras == {"none", "temperature=0"}

\* the request body: whether request.json() parses it, and the payload
Body(ok, messages, stream, extra) ==
    [json_ok |-> ok, messages |-> messages, stream |-> stream, extra |-> extra]
InvalidJson == Body(FALSE, <<>>, FALSE, "none")
ChatMessageLists == {<<>>} \cup {<<m>> : m \in Messages(MaxImages)}
Bodies ==
    {InvalidJson} \cup
    {Body(TRUE, m, st, x) : m \in ChatMessageLists, st \in BOOLEAN, x \in Extras}
\* the bodies sent to every method and path, with every query and header set;
\* POST ChatUrl is sent every body as well
PlainMessages == {m \in Messages(1) : m.role = "user" /\ m.content.kind = "list"}
PlainBodies ==
    {InvalidJson} \cup
    {Body(TRUE, <<m>>, st, x) : m \in PlainMessages, st \in BOOLEAN, x \in Extras}
Request(method, path, query, headers, body) ==
    [method |-> method, path |-> path, query |-> query, headers |-> headers, body |-> body]
Requests ==
    {Request("POST", ChatUrl, EmptyStr, BaseHeaders, bo) : bo \in Bodies}
    \cup
    {Request(me, pa, q, h, bo) :
        me \in Methods, pa \in Paths, q \in Queries, h \in HeaderSets, bo \in PlainBodies}
NoRequest == Request("none", <<>>, EmptyStr, {}, InvalidJson)

\* None
NoUrl == <<>>

startswith(s, prefixes) == Len(s) > 0 /\ s[1] \in prefixes

endswith(s, suffix) ==
    /\ Len(suffix) <= Len(s)
    /\ SubSeq(s, Len(s) - Len(suffix) + 1, Len(s)) = suffix

RECURSIVE rstrip(_)
\* url.rstrip("/")
rstrip(url) ==
    IF Len(url) > 0 /\ url[Len(url)] = "/"
    THEN rstrip(SubSeq(url, 1, Len(url) - 1))
    ELSE url

parse_upstream_url_AnyScheme(path) ==
    IF startswith(path, {"/"}) THEN Tail(path) ELSE path

parse_upstream_url(path) ==
    LET p == IF startswith(path, {"/"}) THEN Tail(path) ELSE path
    IN  IF ~startswith(p, {"http://", "https://"}) THEN NoUrl ELSE p

is_chat_completions_path_NoStrip(url) ==
    endswith(url, <<"v1", "/", "chat", "/", "completions">>)

is_chat_completions_path(url) ==
    endswith(rstrip(url), <<"v1", "/", "chat", "/", "completions">>)

\* The routes of app in the order their decorators register them.
Routes ==
    << [name |-> "proxy_handler", pattern |-> "/{path:path}",
        methods |-> {"GET", "POST", "PUT", "DELETE", "PATCH", "OPTIONS", "HEAD"}],
       [name |-> "health_check", pattern |-> "/health", methods |-> {"GET"}] >>

RouteMatches(route, method, path) ==
    /\ method \in route.methods
    /\ \/ route.pattern = "/{path:path}"
       \/ route.pattern = "/health" /\ path = <<"health">>

\* the handler of the first registered route that matches
Dispatch(method, path) ==
    LET hits == {i \in DOMAIN Routes : RouteMatches(Routes[i], method, path)}
    IN  IF hits = {} THEN "none"
        ELSE Routes[CHOOSE i \in hits : \A j \in hits : i <= j].name

\* ------------------------------------------------------------------- ocr.py
\* What the OCR endpoint does with one POST.
\* an HTTP response with its status and what its body is: JSON holding
\* choices[0].message.content, JSON without "choices", or no JSON at all
\* text is the string at choices[0].message.content, when the body holds one
OcrHttp(status, body, text) ==
    [kind |-> "http", status |-> status, body |-> body, text |-> text]
\* httpx.TimeoutException and httpx.RequestError
OcrTimeout == [kind |-> "timeout", status |-> 0, body |-> "none", text |-> EmptyStr]
OcrTransportError == [kind |-> "transport", status |-> 0, body |-> "none", text |-> EmptyStr]
NoReply == [kind |-> "none", status |-> 0, body |-> "none", text |-> EmptyStr]

Description == <<"cat">>
\* the descriptions the OCR endpoint gives
Descriptions == {Description, <<"dog">>}

OcrResponses ==
    {OcrHttp(200, "content", d) : d \in Descriptions} \cup
    { OcrHttp(200, "no_choices", EmptyStr), OcrHttp(200, "not_json", EmptyStr),
      OcrHttp(201, "content", Description), OcrHttp(500, "not_json", EmptyStr),
      OcrTimeout, OcrTransportError }

Returned(text) == [kind |-> "ok", image_index |-> 0, text |-> text]
OCRError(image_index) == [kind |-> "OCRError", image_index |-> image_index, text |-> EmptyStr]
\* an exception that is no OCRError (response.json() raising on a body that is
\* not JSON): it carries no image index
OtherException == [kind |-> "Exception", image_index |-> 0, text |-> EmptyStr]
NoOutcome == [kind |-> "none", image_index |-> 0, text |-> EmptyStr]

call_ocr(ocr_response, image_index) ==
    IF ocr_response.kind = "timeout" THEN OCRError(image_index)
    ELSE IF ocr_response.kind = "transport" THEN OCRError(image_index)
    ELSE IF ocr_response.status # 200 THEN OCRError(image_index)
    ELSE IF ocr_response.body = "not_json" THEN OtherException
    ELSE IF ocr_response.body = "no_choices" THEN OCRError(image_index)
    ELSE Returned(ocr_response.text)

\* one call of call_ocr: what the endpoint answered and what the call gave back
NewTask == [state |-> "new", reply |-> NoReply, result |-> NoOutcome]
PendingTask == [state |-> "pending", reply |-> NoReply, result |-> NoOutcome]
SettledTask(reply, result) == [state |-> "settled", reply |-> reply, result |-> result]

\* ----------------------------------------------------------------- proxy.py
\* What the upstream does with one request: a network error, or a response.
NetworkError == [err |-> TRUE, status |-> 0, sse |-> FALSE]
UpstreamOutcomes ==
    { NetworkError,
      [err |-> FALSE, status |-> 200, sse |-> FALSE],
      [err |-> FALSE, status |-> 200, sse |-> TRUE],
      [err |-> FALSE, status |-> 503, sse |-> FALSE] }

\* one request to the upstream: params is the query string httpx is given
UpstreamCall(method, url, params, headers, body) ==
    [method |-> method, url |-> url, params |-> params, headers |-> headers, body |-> body]
NoCall == UpstreamCall("none", NoUrl, EmptyStr, {}, InvalidJson)

\* request.headers.get("Authorization") as the headers it adds to a chat call
AuthorizationOf(headers) == {h \in headers : h[1] = "authorization"}
\* the headers of forward_chat_request
ChatHeaders(headers) == {<<"content-type", "application/json">>} \cup AuthorizationOf(headers)
\* the headers of passthrough: all but host and content-length
PassthroughHeaders(headers) == {h \in headers : h[1] \notin {"host", "content-length"}}

NoResponse == [status |-> 0, kind |-> "none", image_index |-> 0]
\* raise HTTPException(status_code, detail); image_index is the ordinal the
\* detail names, 0 when it names none
HTTPException(status_code, image_index) ==
    [status |-> status_code, kind |-> "detail", image_index |-> image_index]

\* ------------------------------------------------------------------ state
VARIABLES
    rb_messages,    \* the messages argument of a direct call of rebuild_messages
    rb_ocr_text,    \* its ocr_text argument
    rb_op,          \* "none", or which images argument the call was given
    rb_images,      \* what extract_images returned for rb_messages
    rb_out,         \* what the call returned
    ocr_parallel,   \* config.OCR_PARALLEL
    request,        \* the inbound request
    route,          \* which handler and branch took the request
    pc,             \* where the request's task is suspended
    images,         \* extract_images(messages)
    tasks,          \* the call_ocr calls, one per image
    overtaken,      \* a call has settled while the call of an earlier image was pending
    ocr_calls,      \* the ordinals of the POSTs sent to the OCR endpoint, in order
    ocr_results,    \* the ocr_results list of process_images
    raised,         \* what process_images raised
    forwarded,      \* the request handed to the relay (stream or non-stream)
    upstream_calls, \* the requests sent to the upstream, in order
    upstream_replies, \* what came back for each of them, in the same order
    stream_read,    \* the chunks aiter_bytes has given the relay, in order
    held,           \* the chunks the relay has read and not yet handed on
    delivered,      \* the chunks the caller has received, in order
    response        \* the status line the caller has received

rb_vars == <<rb_messages, rb_ocr_text, rb_op, rb_images, rb_out>>
srv_vars == <<ocr_parallel, request, route, pc, images, tasks, overtaken, ocr_calls, ocr_results,
              raised, forwarded, upstream_calls, upstream_replies, stream_read, held,
              delivered, response>>
vars == <<rb_messages, rb_ocr_text, rb_op, rb_images, rb_out, ocr_parallel, request, route, pc,
          images, tasks, overtaken, ocr_calls, ocr_results, raised, forwarded,
          upstream_calls, upstream_replies, stream_read, held, delivered, response>>

\* the request-scoped state as one value, so that a handler is a function of it
Cur ==
    [route |-> route, pc |-> pc, images |-> images, tasks |-> tasks,
     overtaken |-> overtaken,
     ocr_calls |-> ocr_calls, ocr_results |-> ocr_results, raised |-> raised,
     forwarded |-> forwarded, upstream_calls |-> upstream_calls,
     upstream_replies |-> upstream_replies, stream_read |-> stream_read, held |-> held,
     delivered |-> delivered, response |-> response]

Become(s) ==
    /\ route' = s.route
    /\ pc' = s.pc
    /\ images' = s.images
    /\ tasks' = s.tasks
    /\ overtaken' = s.overtaken
    /\ ocr_calls' = s.ocr_calls
    /\ ocr_results' = s.ocr_results
    /\ raised' = s.raised
    /\ forwarded' = s.forwarded
    /\ upstream_calls' = s.upstream_calls
    /\ upstream_replies' = s.upstream_replies
    /\ stream_read' = s.stream_read
    /\ held' = s.held
    /\ delivered' = s.delivered
    /\ response' = s.response

Idle ==
    [route |-> "none", pc |-> "idle", images |-> <<>>, tasks |-> <<>>,
     overtaken |-> FALSE,
     ocr_calls |-> <<>>, ocr_results |-> <<>>, raised |-> NoOutcome,
     forwarded |-> NoCall, upstream_calls |-> <<>>, upstream_replies |-> <<>>,
     stream_read |-> <<>>, held |-> <<>>, delivered |-> <<>>, response |-> NoResponse]

InitServer ==
    /\ request = NoRequest
    /\ route = Idle.route
    /\ pc = Idle.pc
    /\ images = Idle.images
    /\ tasks = Idle.tasks
    /\ overtaken = Idle.overtaken
    /\ ocr_calls = Idle.ocr_calls
    /\ ocr_results = Idle.ocr_results
    /\ raised = Idle.raised
    /\ forwarded = Idle.forwarded
    /\ upstream_calls = Idle.upstream_calls
    /\ upstream_replies = Idle.upstream_replies
    /\ stream_read = Idle.stream_read
    /\ held = Idle.held
    /\ delivered = Idle.delivered
    /\ response = Idle.response

\* --------------------------------------- rebuild_messages called directly
InitRebuild ==
    /\ rb_messages \in MessageLists
    /\ rb_ocr_text \in OcrTexts
    /\ rb_op = "none"
    /\ rb_images = <<>>
    /\ rb_out = <<>>
    /\ ocr_parallel = TRUE
    /\ InitServer

\* rebuild_messages(m, extract_images(m), t)
RebuildExtracted ==
    /\ rb_op = "none"
    /\ rb_op' = "extracted"
    /\ rb_images' = extract_images(rb_messages)
    /\ rb_out' = rebuild_messages(rb_messages, rb_images', rb_ocr_text)
    /\ UNCHANGED <<rb_messages, rb_ocr_text>>
    /\ UNCHANGED srv_vars

\* rebuild_messages(m, [], t)
RebuildNoImages ==
    /\ rb_op = "none"
    /\ rb_op' = "empty"
    /\ rb_out' = rebuild_messages(rb_messages, <<>>, rb_ocr_text)
    /\ UNCHANGED <<rb_messages, rb_ocr_text, rb_images>>
    /\ UNCHANGED srv_vars

NextRebuild == RebuildExtracted \/ RebuildNoImages

SpecRebuild == InitRebuild /\ [][NextRebuild]_vars


\* ------------------------------------------------- the request's handlers
Finish(s, resp) == [s EXCEPT !.pc = "done", !.response = resp]

\* the StreamingResponse: status 200 and media type text/event-stream
StreamingResponse == [status |-> 200, kind |-> "stream", image_index |-> 0]
\* Response(content, status_code, headers) relaying the upstream's answer
RelayedResponse(status_code) == [status |-> status_code, kind |-> "relay", image_index |-> 0]
\* an exception no handler catches leaves the application: the server answers 500
InternalServerError == [status |-> 500, kind |-> "internal", image_index |-> 0]
HealthStatus == [status |-> 200, kind |-> "health", image_index |-> 0]
NotFound == [status |-> 404, kind |-> "detail", image_index |-> 0]

\* stream_response returns before generate() has run: nothing is sent upstream
\* yet; non_stream_response awaits client.post
forward_chat_request(s, upstream_url, payload, authorization) ==
    LET call == UpstreamCall("POST", upstream_url, EmptyStr, ChatHeaders(authorization),
                             payload)
    IN  IF payload.stream
        THEN [s EXCEPT !.forwarded = call, !.pc = "stream_open",
                       !.response = StreamingResponse]
        ELSE [s EXCEPT !.forwarded = call, !.pc = "upstream_wait",
                       !.upstream_calls = Append(@, call)]

NewPayload_Fresh(payload, new_messages) == Body(TRUE, new_messages, payload.stream, "none")

\* new_payload = payload.copy(); new_payload["messages"] = new_messages
NewPayload(payload, new_messages) == [payload EXCEPT !.messages = new_messages]

\* format, rebuild, copy the payload with the new messages, forward
TransformAndForward(s, req) ==
    LET ocr_text == format_ocr_results(s.ocr_results)
        new_messages == rebuild_messages(req.body.messages, s.images, ocr_text)
        new_payload == NewPayload(req.body, new_messages)
    IN  forward_chat_request(s, parse_upstream_url(req.path), new_payload, req.headers)

\* handle_chat_completions from the return or the raise of process_images on
AfterProcessImages(s, req) ==
    IF s.raised.kind = "OCRError"
    THEN Finish(s, HTTPException(500, s.raised.image_index))
    ELSE IF s.raised.kind = "Exception"
    THEN Finish(s, InternalServerError)
    ELSE TransformAndForward(s, req)

\* the parallel branch up to "await asyncio.gather": every call is started
StartParallel(s) ==
    [s EXCEPT !.tasks = [i \in DOMAIN s.images |-> PendingTask],
              !.ocr_calls = [i \in DOMAIN s.images |-> i],
              !.pc = "gather"]

\* the serial branch up to its first "await call_ocr": the first call is started
StartSerial(s) ==
    [s EXCEPT !.tasks = [i \in DOMAIN s.images |-> IF i = 1 THEN PendingTask ELSE NewTask],
              !.ocr_calls = <<1>>,
              !.pc = "serial"]

\* process_images up to its first await
StartProcessImages(s, req) ==
    IF Len(s.images) = 0 THEN AfterProcessImages(s, req)
    ELSE IF ocr_parallel THEN StartParallel(s)
    ELSE StartSerial(s)

NoImagesPayload_Rebuilt(payload) ==
    [payload EXCEPT !.messages = rebuild_messages(payload.messages, <<>>, EmptyStr)]

\* "No images, forward as-is"
NoImagesPayload(payload) == payload

handle_chat_completions(s, req) ==
    LET s1 == [s EXCEPT !.route = "chat"]
    IN  IF ~req.body.json_ok THEN Finish(s1, HTTPException(400, 0))
        ELSE IF ~has_images(req.body.messages)
        THEN forward_chat_request(s1, parse_upstream_url(req.path), NoImagesPayload(req.body),
                                  req.headers)
        ELSE StartProcessImages([s1 EXCEPT !.images = extract_images(req.body.messages)], req)

\* passthrough up to the await of client.request
passthrough(s, req) ==
    LET call == UpstreamCall(req.method, parse_upstream_url(req.path), req.query,
                             PassthroughHeaders(req.headers), req.body)
    IN  [s EXCEPT !.route = "passthrough", !.forwarded = call, !.pc = "probe_wait",
                  !.upstream_calls = Append(@, call)]

proxy_handler(s, req) ==
    LET upstream_url == parse_upstream_url(req.path)
    IN  IF upstream_url = NoUrl
        THEN Finish([s EXCEPT !.route = "rejected"], HTTPException(400, 0))
        ELSE IF is_chat_completions_path(upstream_url) /\ req.method = "POST"
        THEN handle_chat_completions(s, req)
        ELSE passthrough(s, req)

health_check(s) == Finish([s EXCEPT !.route = "health_check"], HealthStatus)

\* the application: the request goes to the handler the routes give it
app(s, req) ==
    LET handler == Dispatch(req.method, req.path)
    IN  CASE handler = "proxy_handler" -> proxy_handler(s, req)
          [] handler = "health_check" -> health_check(s)
          [] OTHER -> Finish(s, NotFound)

FailingResults(results) == {i \in DOMAIN results : results[i].kind # "ok"}

LastException(results) ==
    CHOOSE i \in FailingResults(results) : \A j \in FailingResults(results) : j <= i

\* the first result, in image order, that is an exception (1-based: idx + 1)
FirstException(results) ==
    CHOOSE i \in FailingResults(results) : \A j \in FailingResults(results) : i <= j

\* the loop over the results of asyncio.gather(*tasks, return_exceptions=True)
GatherResults_Reversed(ts) == [i \in DOMAIN ts |-> ts[Len(ts) + 1 - i].result]

\* what asyncio.gather returns: the tasks' results in the order of the tasks
GatherResults(ts) == [i \in DOMAIN ts |-> ts[i].result]

gather_collect(s, req) ==
    LET results == GatherResults(s.tasks)
    IN  IF FailingResults(results) # {}
        THEN LET k == FirstException(results)
             IN  AfterProcessImages(
                     [s EXCEPT !.ocr_results =
                                   [i \in 1..(k - 1) |->
                                       [image_num |-> i, ocr_text |-> results[i].text]],
                               !.raised = IF results[k].kind = "OCRError"
                                          THEN results[k]
                                          ELSE OCRError(k)],
                     req)
        ELSE AfterProcessImages(
                 [s EXCEPT !.ocr_results =
                               [i \in DOMAIN results |->
                                   [image_num |-> i, ocr_text |-> results[i].text]]],
                 req)

Raises_Never(result) == FALSE

\* await call_ocr(...) raises what the call raised, which leaves the loop
Raises(result) == result.kind # "ok"

\* the serial loop from the return of its await to the next await
serial_resume(s, req) ==
    LET k == Len(s.ocr_calls)
        result == s.tasks[k].result
    IN  IF Raises(result) THEN AfterProcessImages([s EXCEPT !.raised = result], req)
        ELSE LET s1 == [s EXCEPT !.ocr_results =
                                     Append(@, [image_num |-> k, ocr_text |-> result.text])]
             IN  IF k < Len(s.images)
                 THEN [s1 EXCEPT !.tasks[k + 1] = PendingTask,
                                 !.ocr_calls = Append(@, k + 1)]
                 ELSE AfterProcessImages(s1, req)

\* ---------------------------------------------------------------- actions
Init ==
    /\ rb_messages = <<>>
    /\ rb_ocr_text = EmptyStr
    /\ rb_op = "none"
    /\ rb_images = <<>>
    /\ rb_out = <<>>
    /\ ocr_parallel \in BOOLEAN
    /\ InitServer

\* a request arrives and runs to its first suspension point
Receive(req) ==
    /\ pc = "idle"
    /\ request' = req
    /\ Become(app(Cur, req))
    /\ UNCHANGED <<ocr_parallel, rb_vars>>

\* the OCR endpoint answers the POST for image i (or the call times out, or fails)
OcrSettle(i, ocr_response) ==
    /\ pc \in {"gather", "serial"}
    /\ tasks[i].state = "pending"
    /\ tasks' = [tasks EXCEPT ![i] = SettledTask(ocr_response, call_ocr(ocr_response, i))]
    /\ overtaken' = (overtaken \/ \E j \in 1..(i - 1) : tasks[j].state = "pending")
    /\ UNCHANGED <<request, route, pc, images, ocr_calls, ocr_results, raised, forwarded,
                   upstream_calls, upstream_replies, stream_read, held, delivered,
                   response, ocr_parallel, rb_vars>>

GatherDone_FirstFailure(ts) ==
    \/ \A i \in DOMAIN ts : ts[i].state = "settled"
    \/ \E i \in DOMAIN ts : ts[i].state = "settled" /\ ts[i].result.kind # "ok"

\* with return_exceptions=True, gather is done when every task is done
GatherDone(ts) == \A i \in DOMAIN ts : ts[i].state = "settled"

\* asyncio.gather returns once every task has settled
GatherCollect ==
    /\ pc = "gather"
    /\ GatherDone(tasks)
    /\ Become(gather_collect(Cur, request))
    /\ UNCHANGED <<request, ocr_parallel, rb_vars>>

\* the awaited call of the serial loop has settled
SerialResume ==
    /\ pc = "serial"
    /\ tasks[Len(ocr_calls)].state = "settled"
    /\ Become(serial_resume(Cur, request))
    /\ UNCHANGED <<request, ocr_parallel, rb_vars>>

\* non_stream_response: client.post returns or raises
UpstreamRespond(outcome) ==
    /\ pc = "upstream_wait"
    /\ Become(Finish([Cur EXCEPT !.upstream_replies = Append(@, outcome)],
                      IF outcome.err THEN HTTPException(502, 0)
                      ELSE RelayedResponse(outcome.status)))
    /\ UNCHANGED <<request, ocr_parallel, rb_vars>>

\* stream_response: the server iterates generate(), which opens the upstream call
StreamOpen(outcome) ==
    /\ pc = "stream_open"
    /\ Become([Cur EXCEPT !.upstream_calls = Append(@, forwarded),
                          !.upstream_replies = Append(@, outcome),
                          !.pc = IF outcome.err THEN "done" ELSE "streaming"])
    /\ UNCHANGED <<request, ocr_parallel, rb_vars>>

\* passthrough: client.request returns or raises
ProbeRespond(outcome) ==
    /\ pc = "probe_wait"
    /\ LET s == [Cur EXCEPT !.upstream_replies = Append(@, outcome)]
       IN  Become(IF outcome.err THEN Finish(s, HTTPException(502, 0))
                  ELSE IF outcome.sse
                  THEN [s EXCEPT !.pc = "restream_open", !.response = StreamingResponse]
                  ELSE Finish(s, RelayedResponse(outcome.status)))
    /\ UNCHANGED <<request, ocr_parallel, rb_vars>>

RestreamCall_NoParams(call) == [call EXCEPT !.params = EmptyStr]

\* the request generate() sends: method, url, content, headers and params again
RestreamCall(call) == call

\* passthrough: the server iterates generate(), which sends the request again
RestreamOpen(outcome) ==
    /\ pc = "restream_open"
    /\ Become([Cur EXCEPT !.upstream_calls = Append(@, RestreamCall(forwarded)),
                          !.upstream_replies = Append(@, outcome),
                          !.pc = IF outcome.err THEN "done" ELSE "streaming"])
    /\ UNCHANGED <<request, ocr_parallel, rb_vars>>

\* chunk n of the response to the latest upstream call
Chunk(call, n) == [call |-> call, seq |-> n]

CanRead_Always(buffer) == TRUE

\* generate() is suspended at "yield chunk" until the chunk it holds is taken:
\* only then does "async for" ask aiter_bytes for the next one
CanRead(buffer) == buffer = <<>>

\* "async for chunk in response.aiter_bytes()": the upstream's next chunk arrives
ReadChunk ==
    /\ pc = "streaming"
    /\ CanRead(held)
    /\ Len(stream_read) < MaxChunks
    /\ LET chunk == Chunk(Len(upstream_calls), Len(stream_read) + 1)
       IN  Become([Cur EXCEPT !.stream_read = Append(@, chunk), !.held = Append(@, chunk)])
    /\ UNCHANGED <<request, ocr_parallel, rb_vars>>

\* "yield chunk": the StreamingResponse sends the chunk to the caller
DeliverChunk ==
    /\ pc = "streaming"
    /\ held # <<>>
    /\ Become([Cur EXCEPT !.delivered = Append(@, Head(held)), !.held = Tail(@)])
    /\ UNCHANGED <<request, ocr_parallel, rb_vars>>

\* aiter_bytes ends (the upstream closed the stream) or raises (it failed):
\* either way generate() is over and so is the response
StreamEnd ==
    /\ pc = "streaming"
    /\ CanRead(held)
    /\ Become([Cur EXCEPT !.pc = "done"])
    /\ UNCHANGED <<request, ocr_parallel, rb_vars>>

Next ==
    \/ \E req \in Requests : Receive(req)
    \/ \E i \in DOMAIN tasks, r \in OcrResponses : OcrSettle(i, r)
    \/ GatherCollect
    \/ SerialResume
    \/ \E o \in UpstreamOutcomes : UpstreamRespond(o)
    \/ \E o \in UpstreamOutcomes : StreamOpen(o)
    \/ \E o \in UpstreamOutcomes : ProbeRespond(o)
    \/ \E o \in UpstreamOutcomes : RestreamOpen(o)
    \/ ReadChunk
    \/ DeliverChunk
    \/ StreamEnd

Spec == Init /\ [][Next]_vars

\* ======================================================================
\* Properties of rebuild_messages, extract_images and has_images
\* (checked under SpecRebuild)
\* ======================================================================
NotImage(item) == item.type # "image_url"

\* no message carries an image_url item in a list-typed content
NoImageItems(messages) ==
    \A i \in DOMAIN messages : \A k \in DOMAIN messages[i].content.items :
        NotImage(messages[i].content.items[k])

HasUser(messages) == \E i \in DOMAIN messages : messages[i].role = "user"
LastUser(messages) ==
    CHOOSE i \in DOMAIN messages :
        /\ messages[i].role = "user"
        /\ \A j \in DOMAIN messages : j > i => messages[j].role # "user"

\* the items the call leaves in a list-typed content: all of them when it was
\* given no images, the items that are not images when it was given extract_images
Remaining(items) ==
    IF rb_op = "extracted" THEN SelectSeq(items, NotImage) ELSE items

\* the content the spec's shape law gives a message
LawContent(content) ==
    IF content.kind # "list" THEN content
    ELSE LET rest == Remaining(content.items)
         IN  IF Len(rest) = 0 THEN Str(EmptyStr)
             ELSE IF Len(rest) = 1 /\ rest[1].type = "text" THEN Str(rest[1].text)
             ELSE List(rest)

LawMessage(message) == [role |-> message.role, content |-> LawContent(message.content)]

\* a list-typed content that the shape law rewrites even when nothing is removed
Collapsible(content) ==
    /\ content.kind = "list"
    /\ \/ Len(content.items) = 0
       \/ Len(content.items) = 1 /\ content.items[1].type = "text"

IsSuffix(s, t) == Len(s) <= Len(t) /\ SubSeq(t, Len(t) - Len(s) + 1, Len(t)) = s

\* the content carries the OCR text t: as the whole string, as the suffix
\* "\n\n" + t of the string, or as the text of a final text item
Carries(content, t) ==
    \/ content.kind = "str" /\ (content.text = t \/ IsSuffix(Separator \o t, content.text))
    \/ /\ content.kind = "list"
       /\ Len(content.items) > 0
       /\ LET last == content.items[Len(content.items)]
          IN  last.type = "text" /\ (last.text = t \/ last.text = Separator \o t)

\* C4: images never reappear: rebuild_messages(m, extract_images(m), t) holds no
\* image_url item, extract_images of it is empty and has_images of it is false,
\* for every message list m and every OCR text t, empty or not.
C4_ImagesNeverReappear ==
    rb_op = "extracted" =>
        /\ NoImageItems(rb_out)
        /\ extract_images(rb_out) = <<>>
        /\ ~has_images(rb_out)

\* two messages with images were rebuilt, and the second image sat behind a text
C4_Witness ==
    /\ rb_op = "extracted"
    /\ Len(rb_messages) = 2
    /\ Len(extract_images(rb_messages)) = 3
    /\ rb_messages[2].content.items = <<TextItem(<<"a">>), ImageItem("data:img")>>
    /\ rb_ocr_text # EmptyStr
    /\ ~has_images(rb_out)

\* C5 as claimed: rebuild_messages(m, [], "") is structurally equal to m for
\* every message list m, list-typed contents such as [text] and [] included.
C5_RebuildEmptyIsIdentity ==
    (rb_op = "empty" /\ rb_ocr_text = EmptyStr) => rb_out = rb_messages

\* C5 as amended: rebuild_messages(m, [], "") is structurally equal to m for
\* every message list m in which no list-typed content is empty or made of
\* exactly one text item.
C5_RebuildEmptyIsIdentityUnlessCollapsed ==
    (/\ rb_op = "empty"
     /\ rb_ocr_text = EmptyStr
     /\ \A i \in DOMAIN rb_messages : ~Collapsible(rb_messages[i].content))
        => rb_out = rb_messages

\* a two-text list, a single image and a string went through unchanged
C5_Witness ==
    /\ rb_op = "empty"
    /\ rb_ocr_text = EmptyStr
    /\ Len(rb_messages) = 2
    /\ rb_messages[1].content = List(<<TextItem(<<"a">>), TextItem(<<"a">>)>>)
    /\ rb_messages[2].content = List(<<ImageItem("data:img")>>)
    /\ rb_out = rb_messages

\* C6: the OCR text is never lost when a user message exists: for a non-empty
\* OCR text t, the last user message of the rebuilt list carries t, whatever its
\* content was before (string, empty string, list, absent or null).
C6_OcrTextNeverLost ==
    (rb_op # "none" /\ rb_ocr_text # EmptyStr /\ HasUser(rb_messages)) =>
        /\ HasUser(rb_out)
        /\ Carries(rb_out[LastUser(rb_out)].content, rb_ocr_text)

\* C7: with no user message and a non-empty OCR text t, the rebuilt list is one
\* element longer, ends with {role: "user", content: t}, and its other elements
\* are the stripped and normalized original messages in their order.
C7_NoUserMessageAppends ==
    (rb_op # "none" /\ rb_ocr_text # EmptyStr /\ ~HasUser(rb_messages)) =>
        /\ Len(rb_out) = Len(rb_messages) + 1
        /\ rb_out[Len(rb_out)] = [role |-> "user", content |-> Str(rb_ocr_text)]
        /\ \A i \in DOMAIN rb_messages : rb_out[i] = LawMessage(rb_messages[i])

\* two system messages, one of them with an image, got a trailing user message
C7_Witness ==
    /\ rb_op = "extracted"
    /\ rb_ocr_text = <<"T">>
    /\ Len(rb_messages) = 2
    /\ rb_messages[1] = [role |-> "system", content |-> Str(<<"hi">>)]
    /\ rb_messages[2] = [role |-> "system",
                         content |-> List(<<ImageItem("data:img"), OtherItem>>)]
    /\ Len(rb_out) = 3
    /\ rb_out[3] = [role |-> "user", content |-> Str(<<"T">>)]

\* C8: the content-shape law, for every message that is not the one the OCR
\* text is appended to: a list-typed content with no remaining item becomes "",
\* with exactly one remaining text item becomes that item's text, and otherwise
\* stays the list of the remaining items in their order; a content that was
\* not a list is untouched.
C8_ContentShapeLaw ==
    rb_op # "none" =>
        \A i \in DOMAIN rb_messages :
            (\/ rb_ocr_text = EmptyStr
             \/ ~HasUser(rb_messages)
             \/ i # LastUser(rb_messages))
                => rb_out[i] = LawMessage(rb_messages[i])

\* [image, text] collapsed to the text, [other] stayed a list
C8_Witness ==
    /\ rb_op = "extracted"
    /\ rb_ocr_text = EmptyStr
    /\ Len(rb_messages) = 2
    /\ rb_messages[1].content = List(<<ImageItem("data:img"), TextItem(<<"a">>)>>)
    /\ rb_out[1].content = Str(<<"a">>)
    /\ rb_messages[2].content = List(<<OtherItem, ImageItem("data:img")>>)
    /\ rb_out[2].content = List(<<OtherItem>>)

\* ======================================================================
\* Properties of the request pipeline (checked under Spec)
\* ======================================================================
Settled(i) == tasks[i].state = "settled"
\* the images whose describe call failed
Failed == {i \in DOMAIN tasks : Settled(i) /\ tasks[i].result.kind # "ok"}
Min(S) == CHOOSE x \in S : \A y \in S : x <= y
\* process_images has returned or raised
OcrOver == tasks # <<>> /\ pc \notin {"gather", "serial"}

\* C1: in concurrent mode, whatever the outcomes of the N describe calls and the
\* order they complete in, if at least one fails then process_images raises the
\* failure whose ordinal is the smallest among the failing images.
C1_LowestOrdinalFailureRaised ==
    (ocr_parallel /\ OcrOver /\ Failed # {}) =>
        /\ raised.kind = "OCRError"
        /\ raised.image_index = Min(Failed)

\* images 1 and 3 failed, image 2 succeeded, and the failure raised names image 1
C1_Witness ==
    /\ ocr_parallel
    /\ OcrOver
    /\ Len(tasks) = 3
    /\ Failed = {1, 3}
    /\ tasks[2].result.kind = "ok"
    /\ raised = OCRError(1)

\* C2: in sequential mode the describe calls are issued one at a time in image
\* order (call k+1 only after call k has returned), and once the call for image
\* k has failed no call is ever issued for an image of greater ordinal.
C2_SequentialShortCircuits ==
    ~ocr_parallel =>
        /\ ocr_calls = [i \in 1..Len(ocr_calls) |-> i]
        /\ Cardinality({i \in DOMAIN tasks : tasks[i].state = "pending"}) <= 1
        /\ \A k \in DOMAIN tasks :
               tasks[k].state # "new" =>
                   /\ k <= Len(ocr_calls)
                   /\ \A j \in 1..(k - 1) : Settled(j) /\ tasks[j].result.kind = "ok"
        /\ \A k \in Failed : \A j \in DOMAIN tasks :
               j > k => tasks[j].state = "new" /\ Len(ocr_calls) < j

\* of three images the first was described, the second failed, the third was
\* never sent
C2_Witness ==
    /\ ~ocr_parallel
    /\ Len(tasks) = 3
    /\ tasks[1].result.kind = "ok"
    /\ Failed = {2}
    /\ tasks[3].state = "new"
    /\ ocr_calls = <<1, 2>>
    /\ pc = "done"

\* C3: all or nothing: if the describe call of any image of a chat request fails,
\* no request is ever sent upstream and the caller receives a 5xx response that
\* names the ordinal of a failing image; the upstream call is made only after
\* every image has a description.
C3_AllOrNothing ==
    /\ Failed # {} => upstream_calls = <<>>
    /\ (OcrOver /\ Failed # {}) =>
           /\ response.status \in 500..599
           /\ response.image_index \in Failed
    /\ (tasks # <<>> /\ upstream_calls # <<>>) =>
           \A i \in DOMAIN tasks : Settled(i) /\ tasks[i].result.kind = "ok"

\* C9: a chat-completions request whose messages hold no image_url item: has_images
\* is false, no OCR call is issued, and every payload sent upstream is the inbound
\* one, its messages unchanged (no list collapsed, nothing appended).
C9_NoImagesForwardedUnchanged ==
    (route = "chat" /\ request.body.json_ok /\ NoImageItems(request.body.messages)) =>
        /\ ~has_images(request.body.messages)
        /\ ocr_calls = <<>>
        /\ tasks = <<>>
        /\ pc # "idle" => forwarded.body = request.body
        /\ \A c \in DOMAIN upstream_calls :
               /\ upstream_calls[c].body.messages = request.body.messages
               /\ upstream_calls[c].body = request.body
        /\ pc \in {"upstream_wait", "streaming", "done"} => Len(upstream_calls) = 1

\* a user message whose content is the one-item list [text] reached the upstream
\* as it came, still a list
C9_Witness ==
    /\ route = "chat"
    /\ request.body.json_ok
    /\ request.body.messages = <<[role |-> "user", content |-> List(<<TextItem(<<"a">>)>>)]>>
    /\ ocr_calls = <<>>
    /\ Len(upstream_calls) = 1
    /\ upstream_calls[1].body.messages = request.body.messages

\* C10: every GET request to /health is answered with status 200 and the fixed
\* status object.
C10_HealthAlways200 ==
    (request.method = "GET" /\ request.path = <<"health">> /\ pc = "done") =>
        response = HealthStatus

\* ======================================================================
\* Properties of the calls sent to the upstream (checked under Spec)
\* ======================================================================
\* the URL a call reaches the upstream with: httpx appends the params it is given
OutboundUrl(call) ==
    IF call.params = EmptyStr THEN call.url ELSE call.url \o <<"?">> \o call.params

\* the URL embedded in the request's path, without the one optional leading slash
EmbeddedUrl ==
    IF Len(request.path) > 0 /\ request.path[1] = "/" THEN Tail(request.path) ELSE request.path

\* C11: query-string forwarding: for every inbound request with a valid
\* upstream URL and a non-empty query string, on the chat route as on the
\* passthrough route, every call sent to the upstream goes to the embedded
\* upstream URL with that query string appended.
C11_QueryForwarded ==
    request.query # EmptyStr =>
        \A c \in DOMAIN upstream_calls :
            OutboundUrl(upstream_calls[c]) = EmbeddedUrl \o <<"?">> \o request.query

\* some call to the upstream failed before a response came back
ConnectFailed == \E c \in DOMAIN upstream_replies : upstream_replies[c].err

\* C12: an upstream connection failure surfaces as an error in both relay
\* modes: for every chat request forwarded upstream, with stream true or
\* false, a failure to establish the upstream connection gives the caller
\* the upstream-error response (502), never a success status.
C12_ConnectFailureIs502 ==
    (route = "chat" /\ ConnectFailed) => response.status = 502

\* the probe of a passthrough request came back with a response
Probed == route = "passthrough" /\ upstream_replies # <<>> /\ ~upstream_replies[1].err

\* C13: probe, then re-stream: for every passthrough request the upstream
\* receives exactly one request when the first response is not an event
\* stream, whose answer is relayed; when it is an event stream the upstream
\* receives one more request, equal to the first in method, URL, headers, body
\* and query, as soon as the stream is opened, never a third, and every chunk
\* the caller receives is a chunk of the second response.
C13_ProbeThenRestream ==
    Probed =>
        IF ~upstream_replies[1].sse
        THEN /\ pc = "done"
             /\ Len(upstream_calls) = 1
             /\ response = RelayedResponse(upstream_replies[1].status)
             /\ delivered = <<>>
        ELSE /\ response = StreamingResponse
             /\ IF pc = "restream_open" THEN Len(upstream_calls) = 1
                ELSE /\ Len(upstream_calls) = 2
                     /\ upstream_calls[2] = upstream_calls[1]
             /\ \A k \in DOMAIN delivered : delivered[k].call = 2

\* an event stream with a query string and an Authorization header was
\* re-issued, and the caller has received both of its chunks
C13_Witness ==
    /\ Probed
    /\ upstream_replies[1].sse
    /\ Len(upstream_calls) = 2
    /\ upstream_calls[2].params # EmptyStr
    /\ upstream_calls[2].headers # {}
    /\ Len(delivered) = 2
    /\ pc = "done"

\* ======================================================================
\* Properties of routing and of client errors (checked under Spec)
\* ======================================================================
\* the path, after its leading slash, does not start with http:// or https://
BadPath == EmbeddedUrl = <<>> \/ EmbeddedUrl[1] \notin {"http://", "https://"}

\* the URL, with its trailing slashes trimmed, ends with v1/chat/completions
IsChatUrl(url) ==
    \E k \in 5..Len(url) :
        /\ \A j \in (k + 1)..Len(url) : url[j] = "/"
        /\ SubSeq(url, k - 4, k) = <<"v1", "/", "chat", "/", "completions">>

ChatPost == ~BadPath /\ request.method = "POST" /\ IsChatUrl(EmbeddedUrl)

NoOutboundCall == ocr_calls = <<>> /\ upstream_calls = <<>> /\ forwarded = NoCall

C15_RouteDispatch ==
    (pc # "idle" /\ ~BadPath) =>
        /\ route = "chat" <=> (request.method = "POST" /\ IsChatUrl(EmbeddedUrl))
        /\ route # "chat" =>
            /\ route = "passthrough"
            /\ ocr_calls = <<>>
            /\ response # HTTPException(400, 0)
            /\ \A c \in DOMAIN upstream_calls :
                /\ upstream_calls[c].body = request.body
                /\ upstream_calls[c].method = request.method

\* a POST to a chat URL with a trailing slash took the chat route with images
C15_Witness ==
    /\ route = "chat"
    /\ request.path = ChatUrl \o <<"/">>
    /\ ocr_calls # <<>>
    /\ pc = "done"

\* a GET to a chat URL, with a body that is not JSON, was passed through
C15_WitnessPassthrough ==
    /\ route = "passthrough"
    /\ IsChatUrl(EmbeddedUrl)
    /\ ~request.body.json_ok
    /\ Len(upstream_calls) = 2

\* ======================================================================
\* Properties of call_ocr and process_images (checked under Spec)
\* ======================================================================
\* the answers the claim counts as failures: a status that is not 2xx, a body
\* without choices[0].message.content, a timeout, a transport error
FailureReply(reply) ==
    \/ reply.kind \in {"timeout", "transport"}
    \/ reply.status \notin 200..299
    \/ reply.body # "content"

\* C16: outcome classification of call_ocr: the call for image i raises the
\* OCR failure tagged with i exactly when the endpoint answers with a status
\* that is not 2xx, answers without choices[0].message.content, times out or
\* fails at the transport level; for every 2xx answer that holds
\* choices[0].message.content it returns that content.
C16_OutcomeClassification ==
    \A i \in DOMAIN tasks :
        tasks[i].state = "settled" =>
            /\ FailureReply(tasks[i].reply) <=> tasks[i].result = OCRError(i)
            /\ ~FailureReply(tasks[i].reply) => tasks[i].result = Returned(tasks[i].reply.text)

\* ======================================================================
\* Properties of extract_images (checked under SpecRebuild)
\* ======================================================================
\* the 0-based coordinates of the image_url items of list-typed contents
ImageCoords(messages) ==
    UNION {{<<i - 1, k - 1>> :
               k \in {n \in DOMAIN messages[i].content.items :
                          messages[i].content.items[n].type = "image_url"}} :
           i \in {n \in DOMAIN messages : messages[n].content.kind = "list"}}

CoordOf(ref) == <<ref.msg_idx, ref.content_idx>>
LexLess(a, b) == a[1] < b[1] \/ (a[1] = b[1] /\ a[2] < b[2])

\* C17: extraction invariant: for every message list, extract_images returns
\* exactly the coordinates (message_index, content_index) of the image_url
\* items of list-typed contents, each exactly once and with the item itself,
\* sorted by message index and then by content index; a string content yields
\* no image; the message list is left as it was.
C17_ExtractionInvariant ==
    rb_op = "extracted" =>
        /\ {CoordOf(rb_images[j]) : j \in DOMAIN rb_images} = ImageCoords(rb_messages)
        /\ Len(rb_images) = Cardinality(ImageCoords(rb_messages))
        /\ \A j \in DOMAIN rb_images : \A l \in DOMAIN rb_images :
               j < l => LexLess(CoordOf(rb_images[j]), CoordOf(rb_images[l]))
        /\ \A j \in DOMAIN rb_images :
               rb_images[j].item =
                   rb_messages[rb_images[j].msg_idx + 1].content.items[
                       rb_images[j].content_idx + 1]
        /\ \A j \in DOMAIN rb_images :
               rb_messages[rb_images[j].msg_idx + 1].content.kind = "list"

\* images were extracted from two messages, one of them from behind a text item
C17_Witness ==
    /\ rb_op = "extracted"
    /\ Len(rb_images) = 3
    /\ rb_images[1].msg_idx = 0
    /\ rb_images[1].content_idx = 1
    /\ rb_images[3].msg_idx = 1
    /\ rb_messages[1].content.items[1].type = "text"

\* ======================================================================
\* Properties of the chat pipeline's payload and of the relays (checked
\* under Spec)
\* ======================================================================
\* the chat request holds images and its OCR has passed: a payload was made
PassedOcr ==
    /\ route = "chat"
    /\ ImageCoords(request.body.messages) # {}
    /\ forwarded # NoCall

\* C18: payload frame: for every chat request with images that passes OCR,
\* the payload sent upstream equals the inbound payload in every field other
\* than messages (stream and the fields the proxy does not know included),
\* and the inbound payload is still what the caller sent.
C18_PayloadFrame ==
    PassedOcr =>
        /\ [forwarded.body EXCEPT !.messages = request.body.messages] = request.body
        /\ \A c \in DOMAIN upstream_calls : upstream_calls[c].body = forwarded.body

\* a streamed request with an image and a field the proxy does not know has
\* been sent upstream
C18_Witness ==
    /\ PassedOcr
    /\ request.body.extra # "none"
    /\ request.body.stream
    /\ upstream_calls # <<>>
    /\ upstream_calls[1].body.messages # request.body.messages

\* C19: the streaming relay holds at most one chunk: in the chat relay and in
\* the passthrough re-issue alike, the relay reads the next chunk of the
\* upstream only when the chunk before it has been handed to the caller, so
\* it never holds more than one; what the caller has received is at all times
\* the first chunks of the upstream's response, in order, none dropped and
\* none twice.
C19_AtMostOneChunkInFlight ==
    /\ Len(held) <= 1
    /\ stream_read = delivered \o held
    /\ \A k \in DOMAIN delivered : delivered[k] = Chunk(Len(upstream_calls), k)

\* the chat relay has handed on the first chunk and holds the second
C19_Witness ==
    /\ route = "chat"
    /\ pc = "streaming"
    /\ Len(delivered) = 1
    /\ Len(held) = 1

\* the passthrough relay has handed on every chunk of the re-issued request
C19_WitnessRestream ==
    /\ route = "passthrough"
    /\ pc = "done"
    /\ Len(delivered) = MaxChunks

\* ======================================================================
\* The two modes of process_images on the same outcomes (checked under Spec)
\* ======================================================================
\* the handler's state when it calls process_images for the request
AtProcessImages ==
    [Idle EXCEPT !.route = "chat", !.images = extract_images(request.body.messages)]

\* the call for image i settles with the answer fate[i]
SettleAs(s, i, fate) == [s EXCEPT !.tasks[i] = SettledTask(fate[i], call_ocr(fate[i], i))]

RECURSIVE SettleAll(_, _, _)
SettleAll(s, i, fate) ==
    IF i > Len(s.tasks) THEN s ELSE SettleAll(SettleAs(s, i, fate), i + 1, fate)

\* the concurrent branch run to its end on the answers fate
ParallelRun(fate) == gather_collect(SettleAll(StartParallel(AtProcessImages), 1, fate), request)

RECURSIVE SerialFrom(_, _)
SerialFrom(s, fate) ==
    IF s.pc # "serial" THEN s
    ELSE SerialFrom(serial_resume(SettleAs(s, Len(s.ocr_calls), fate), request), fate)

\* the serial branch run to its end on the answers fate
SerialRun(fate) == SerialFrom(StartSerial(AtProcessImages), fate)

\* what process_images gave back and what the caller and the upstream see of it
Observable(s) ==
    [raised |-> s.raised,
     results |-> IF s.raised = NoOutcome THEN s.ocr_results ELSE <<>>,
     response |-> s.response,
     forwarded |-> s.forwarded]

\* process_images has just returned or raised: nothing has happened since
JustAfterOcr ==
    /\ tasks # <<>>
    /\ \/ pc \in {"upstream_wait", "stream_open"}
       \/ pc = "done" /\ raised # NoOutcome

\* the per-image answers that agree with the answers this run has seen
Fates ==
    {fate \in [DOMAIN tasks -> OcrResponses] :
        \A i \in DOMAIN tasks : tasks[i].state = "settled" => fate[i] = tasks[i].reply}

\* C20: mode equivalence of process_images: for every list of images and
\* every fixed per-image outcome of the describe calls (a description, an OCR
\* failure, any other exception raised inside the call), the concurrent and the
\* sequential mode give the same observable result: the same ordered list of
\* (ordinal, description) when all succeed, and otherwise an OCR failure with
\* the same ordinal, so that the caller gets the same 5xx naming the same image.
C20_ModeEquivalence ==
    JustAfterOcr =>
        \A fate \in Fates :
            /\ Observable(Cur) =
                   Observable(IF ocr_parallel THEN ParallelRun(fate) ELSE SerialRun(fate))
            /\ Observable(ParallelRun(fate)) = Observable(SerialRun(fate))

\* ======================================================================
\* Ordering and settlement of the describe calls (checked under Spec)
\* ======================================================================
\* process_images has returned its list
OcrSucceeded == OcrOver /\ raised = NoOutcome

\* C21: result ordering is independent of completion order: whenever
\* process_images succeeds on N images, in either mode and whatever the order
\* in which the N describe calls completed, it returns [(1, d1), ..., (N, dN)]
\* where di is the description the endpoint returned for the i-th image in
\* extraction order; no description is attached to another image's ordinal.
C21_ResultsInExtractionOrder ==
    OcrSucceeded =>
        /\ Len(ocr_results) = Len(images)
        /\ Len(tasks) = Len(images)
        /\ \A i \in DOMAIN ocr_results :
               ocr_results[i] = [image_num |-> i, ocr_text |-> tasks[i].reply.text]

\* concurrent mode: a later image's call completed before an earlier one's,
\* the descriptions differ, and process_images has returned
C21_Witness ==
    /\ ocr_parallel
    /\ OcrSucceeded
    /\ overtaken
    /\ Len(images) = 3
    /\ ocr_results[1].ocr_text # ocr_results[2].ocr_text
    /\ ocr_results[2].ocr_text # ocr_results[3].ocr_text

\* sequential mode: process_images has returned differing descriptions
C21_WitnessSequential ==
    /\ ~ocr_parallel
    /\ OcrSucceeded
    /\ Len(images) = 2
    /\ ocr_results[1].ocr_text # ocr_results[2].ocr_text

\* C22: single attempt with full settlement in concurrent mode: for every
\* list of N images, process_images issues exactly one describe call per
\* image, N in all and none repeated, also when some of them fail; all N are
\* started before it waits for any result; and it returns or raises only when
\* all N calls have settled.
C22_SingleAttemptFullSettlement ==
    (ocr_parallel /\ tasks # <<>>) =>
        /\ Len(tasks) = Len(images)
        /\ ocr_calls = [i \in DOMAIN images |-> i]
        /\ \A i \in DOMAIN tasks : tasks[i].state # "new"
        /\ pc # "gather" => \A i \in DOMAIN tasks : Settled(i)

\* concurrent mode, three images: the first call failed before the others had
\* settled, and process_images raised once all three had
C22_Witness ==
    /\ ocr_parallel
    /\ OcrOver
    /\ Len(images) = 3
    /\ raised = OCRError(1)
    /\ tasks[2].result.kind = "ok"
    /\ tasks[3].result.kind = "Exception"
    /\ ~overtaken

====
